---- MODULE Spec2Model ----
(***************************************************************************)
(* A model of smallweb's request dispatch engine.                          *)
(*                                                                         *)
(*   Spec       the `up` server: the dispatcher of NewCmdUp, the auth      *)
(*              middleware (AuthMiddleware.Wrap) and its session store.    *)
(*   SpecServe  the `serve` handler (Handler.ServeHTTP): entrypoint        *)
(*              resolution, env composition, evaluator child, access log.  *)
(*                                                                         *)
(* Time is counted in days.  Strings the code inspects character by        *)
(* character (paths, globs, tokens, hosts) are sequences of chunks.        *)
(***************************************************************************)
EXTENDS Integers, Sequences, FiniteSets, TLC

VARIABLES
    pc,         \* "idle": no request in progress; "done": a request was served
    now,        \* time.Now(), in days
    email,      \* k.String("email"): the required account, "" when unset
    sessions,   \* the session table: id -> row
    nextId,     \* the next session id gonanoid hands out (ids never repeat)
    req,        \* the request just served
    resp,       \* what the server answered to it
    pre,        \* the session table before the request was served
    logsDir,    \* whether rootDir/.logs exists
    logs,       \* rootDir/.logs/<alias>.jsonl: alias -> the records appended
    hreq,       \* the request Handler.ServeHTTP just served
    hres,       \* what it answered, and what it did on the way
    cronMinute, \* the last minute boundary the clock of the cron driver passed
    cronLog,    \* one record per run of the driver's callback, oldest first
    procs       \* requests in flight inside the middleware, step by step

upVars == <<now, email, sessions, nextId, req, resp, pre>>
serveVars == <<logsDir, logs, hreq, hres>>
cronVars == <<cronMinute, cronLog>>
raceVars == <<procs>>
vars == <<pc, upVars, serveVars, cronVars, raceVars>>

----------------------------------------------------------------------------
(* Bounds of the model *)

MaxTime == 15
MaxSessions == 2

\* At most this many of the entrypoint candidates exist at once.
MaxFiles == 3

\* At most this many records are appended to one access log.
MaxLog == 2

\* This many requests are in flight at once inside the middleware.
MaxProcs == 2

\* The cron driver is followed for this many minutes.
MaxMinutes == 4

\* The clock moves in steps of these many days.
Steps == {7, 8}

----------------------------------------------------------------------------
(* Program constants *)

SevenDays == 7
FourteenDays == 14

Domain == <<"example", "test">>
HostBlog == <<"blog">> \o Domain
HostDocs == <<"docs">> \o Domain

Owner == "owner@example.test"
Other == "other@example.test"

PathLogin == <<"/_auth", "/login">>
PathCallback == <<"/_auth", "/callback">>
PathLogout == <<"/_auth", "/logout">>
PathPage == <<"/page">>
PathAuthors == <<"/_auth", "ors">>

AuthPaths == {PathLogin, PathCallback, PathLogout}

----------------------------------------------------------------------------
(* Sequences *)

IsPrefix(p, s) == Len(p) <= Len(s) /\ SubSeq(s, 1, Len(p)) = p

IsSuffix(p, s) == Len(p) <= Len(s) /\ SubSeq(s, Len(s) - Len(p) + 1, Len(s)) = p

\* The least index of s holding x, 0 when there is none.
IndexOf(s, x) ==
    IF \E i \in 1..Len(s) : s[i] = x
    THEN CHOOSE i \in 1..Len(s) : s[i] = x /\ \A j \in 1..(i - 1) : s[j] # x
    ELSE 0

----------------------------------------------------------------------------
(* Token store *)

\* The tokens table: public id -> the secret its hash was made from.
TokenTable == [p \in {<<"pub">>} |-> <<"sec">>]

\* parseToken: split on the first ".", both sides non-empty.
parseToken(tok) ==
    LET i == IndexOf(tok, ".") IN
    IF i = 0 \/ i = 1 \/ i = Len(tok)
    THEN [ok |-> FALSE, public |-> <<>>, secret |-> <<>>]
    ELSE [ok |-> TRUE, public |-> SubSeq(tok, 1, i - 1),
          secret |-> SubSeq(tok, i + 1, Len(tok))]

\* parseToken, database.GetToken and bcrypt.CompareHashAndPassword in a row.
VerifyToken(tok) ==
    LET t == parseToken(tok) IN
    /\ t.ok
    /\ t.public \in DOMAIN TokenTable
    /\ TokenTable[t.public] = t.secret

----------------------------------------------------------------------------
(* Session store *)

NoSession == [email |-> "", domain |-> <<>>, createdAt |-> 0, expiresAt |-> 0]

\* database.GetSession: the row with that id, if any.
dbGetSession(ss, id) ==
    IF id \in DOMAIN ss THEN [ok |-> TRUE, session |-> ss[id]]
    ELSE [ok |-> FALSE, session |-> NoSession]

\* AuthMiddleware.CreateSession with id the fresh id.
CreateSession(ss, id, mail, domain, t) ==
    [i \in DOMAIN ss \cup {id} |->
        IF i = id
        THEN [email |-> mail, domain |-> domain, createdAt |-> t,
              expiresAt |-> t + FourteenDays]
        ELSE ss[i]]

\* AuthMiddleware.DeleteSession
DeleteSessionNoop(ss, id) == ss
DeleteSession(ss, id) == [i \in DOMAIN ss \ {id} |-> ss[i]]

\* AuthMiddleware.GetSession
GetSessionAnyDomain(ss, id, domain) == dbGetSession(ss, id)
GetSession(ss, id, domain) ==
    LET g == dbGetSession(ss, id) IN
    IF ~g.ok THEN g
    ELSE IF g.session.domain # domain THEN [ok |-> FALSE, session |-> NoSession]
    ELSE g

\* AuthMiddleware.ExtendSession
ExtendSession(ss, id, expiresAt) ==
    IF id \in DOMAIN ss THEN [ss EXCEPT ![id].expiresAt = expiresAt] ELSE ss

----------------------------------------------------------------------------
(* Responses *)

NoCookie == [kind |-> "none", value |-> 0, expires |-> 0]
ExpireCookie == [kind |-> "expire", value |-> 0, expires |-> 0]
SetSessionCookieNoExpiry(id, t) == [kind |-> "set", value |-> id, expires |-> 0]
SetSessionCookie(id, t) == [kind |-> "set", value |-> id, expires |-> t]

NoOauth == [kind |-> "none", state |-> "", redirect |-> ""]
ExpireOauth == [kind |-> "expire", state |-> "", redirect |-> ""]
SetOauth(st, rd) == [kind |-> "set", state |-> st, redirect |-> rd]

\* A response: the status, who answered ("middleware", "dispatcher" or the
\* handler that served the request), the WWW-Authenticate challenge, the
\* Location, the body and the two cookies set.
Response(status, by, challenge, location, body, setSession, setOauth) ==
    [status |-> status, by |-> by, challenge |-> challenge,
     location |-> location, body |-> body,
     setSession |-> setSession, setOauth |-> setOauth,
     private |-> FALSE, wrapped |-> FALSE, worker |-> "none", appname |-> <<>>]

\* http.Error(w, msg, status) of the middleware
Error(status, challenge, msg) ==
    Response(status, "middleware", challenge, <<>>, msg, NoCookie, NoOauth)

\* next.ServeHTTP(w, r): the wrapped handler answers.
Served(next) == Response(200, next, "", <<>>, "content", NoCookie, NoOauth)

Out(rs, ss, nid) == [resp |-> rs, sessions |-> ss, nextId |-> nid]

----------------------------------------------------------------------------
(* AuthMiddleware.Wrap *)

\* r.BasicAuth(): the header is "Basic " and base64 of user:password.
BasicAuthOk(r) == r.authz.scheme = "Basic" /\ r.authz.decodable

\* strings.HasPrefix(authorization, "Bearer ")
HasBearer(r) == r.authz.scheme = "Bearer"

\* http.Redirect to "/_auth/login?redirect=" + r.URL.Path, with 303
LoginRedirectNoPath(r, setSession) ==
    Response(303, "middleware", "", <<"login", <<>>>>, "", setSession, NoOauth)
LoginRedirect(r, setSession) ==
    Response(303, "middleware", "", <<"login", r.path>>, "", setSession, NoOauth)

\* The /_auth/login branch
Login(r, ss, nid) ==
    IF ~r.env.stateOk
    THEN Out(Error(500, "", "Internal Server Error"), ss, nid)
    ELSE Out(Response(303, "middleware", "", <<"provider", r.host, r.env.state>>,
                      "", NoCookie, SetOauth(r.env.state, r.qRedirect)),
             ss, nid)

\* query.Get("state") != oauthStore.State, negated
StateMatchesAlways(r) == TRUE
StateMatches(r) == r.qState = r.oauth[1].state

\* The /_auth/callback branch
Callback(r, ss, nid, t) ==
    LET unauthorized == Out(Error(401, "", "Unauthorized"), ss, nid) IN
    IF r.oauth = <<>> THEN unauthorized
    ELSE IF ~r.oauth[1].decodable THEN unauthorized
    ELSE IF ~StateMatches(r) THEN unauthorized
    ELSE IF r.qCode = "" THEN Out(Error(400, "", "Bad Request"), ss, nid)
    ELSE IF ~r.env.exchangeOk THEN unauthorized
    ELSE IF r.env.userinfo = "neterr"
        THEN Out(Error(500, "", "Internal Server Error"), ss, nid)
    ELSE IF r.env.userinfo = "non200" THEN unauthorized
    ELSE IF r.env.userinfo = "undecodable" THEN unauthorized
    ELSE IF r.env.storeFail = "insert" THEN unauthorized
    ELSE Out(Response(303, "middleware", "", <<"to", r.oauth[1].redirect>>, "",
                      SetSessionCookie(nid, t + FourteenDays), ExpireOauth),
             CreateSession(ss, nid, r.env.userinfo, r.host, t), nid + 1)

\* The /_auth/logout branch
LogoutNoDelete(r, ss, nid) ==
    IF r.cookie = <<>> THEN Out(Error(401, "", "Unauthorized"), ss, nid)
    ELSE Out(Response(303, "middleware", "",
                      IF r.qRedirect = "" THEN <<"root", r.host>>
                      ELSE <<"to", r.qRedirect>>,
                      "", ExpireCookie, NoOauth),
             ss, nid)
Logout(r, ss, nid) ==
    IF r.cookie = <<>> THEN Out(Error(401, "", "Unauthorized"), ss, nid)
    ELSE IF r.env.storeFail = "delete"
        THEN Out(Error(401, "", "Unauthorized"), ss, nid)
    ELSE Out(Response(303, "middleware", "",
                      IF r.qRedirect = "" THEN <<"root", r.host>>
                      ELSE <<"to", r.qRedirect>>,
                      "", ExpireCookie, NoOauth),
             DeleteSession(ss, r.cookie[1]), nid)

\* time.Now().After(session.ExpiresAt)
Expired(t, session) == t > session.expiresAt

\* time.Now().Add(7 * 24 * time.Hour).After(session.ExpiresAt)
NearExpirationInclusive(t, session) == t + SevenDays >= session.expiresAt
NearExpiration(t, session) == t + SevenDays > session.expiresAt

\* The session branch: everything after the three /_auth paths.
SessionFlowExtendThenNext(r, next, ss, nid, t, em) ==
    IF r.cookie = <<>> THEN Out(LoginRedirect(r, NoCookie), ss, nid)
    ELSE
    LET g == IF r.env.storeFail = "get"
             THEN [ok |-> FALSE, session |-> NoSession]
             ELSE GetSession(ss, r.cookie[1], r.host) IN
    IF ~g.ok THEN Out(LoginRedirect(r, ExpireCookie), ss, nid)
    ELSE IF Expired(t, g.session) THEN
        IF r.env.storeFail = "delete"
        THEN Out(Error(500, "", "Internal Server Error"), ss, nid)
        ELSE Out(LoginRedirect(r, ExpireCookie), DeleteSession(ss, r.cookie[1]), nid)
    ELSE IF g.session.email # em THEN Out(Error(401, "", "Unauthorized"), ss, nid)
    ELSE IF NearExpiration(t, g.session) THEN
        IF r.env.storeFail = "update"
        THEN Out(Error(500, "", "Internal Server Error"), ss, nid)
        ELSE Out(Served(next), ExtendSession(ss, r.cookie[1], t + FourteenDays), nid)
    ELSE Out(Served(next), ss, nid)
SessionFlow(r, next, ss, nid, t, em) ==
    IF r.cookie = <<>> THEN Out(LoginRedirect(r, NoCookie), ss, nid)
    ELSE
    LET g == IF r.env.storeFail = "get"
             THEN [ok |-> FALSE, session |-> NoSession]
             ELSE GetSession(ss, r.cookie[1], r.host) IN
    IF ~g.ok THEN Out(LoginRedirect(r, ExpireCookie), ss, nid)
    ELSE IF Expired(t, g.session) THEN
        IF r.env.storeFail = "delete"
        THEN Out(Error(500, "", "Internal Server Error"), ss, nid)
        ELSE Out(LoginRedirect(r, ExpireCookie), DeleteSession(ss, r.cookie[1]), nid)
    ELSE IF g.session.email # em THEN Out(Error(401, "", "Unauthorized"), ss, nid)
    ELSE IF NearExpiration(t, g.session) THEN
        IF r.env.storeFail = "update"
        THEN Out(Error(500, "", "Internal Server Error"), ss, nid)
        ELSE Out(Response(200, "middleware", "", <<>>, "", NoCookie, NoOauth),
                 ExtendSession(ss, r.cookie[1], t + FourteenDays), nid)
    ELSE Out(Served(next), ss, nid)

WrapPathsFirst(r, next, ss, nid, t, em) ==
    IF em # "" /\ r.path = PathLogin THEN Login(r, ss, nid)
    ELSE IF em # "" /\ r.path = PathCallback THEN Callback(r, ss, nid, t)
    ELSE IF em # "" /\ r.path = PathLogout THEN Logout(r, ss, nid)
    ELSE IF BasicAuthOk(r) /\ VerifyToken(r.authz.token) THEN Out(Served(next), ss, nid)
    ELSE IF HasBearer(r) /\ VerifyToken(r.authz.token) THEN Out(Served(next), ss, nid)
    ELSE SessionFlow(r, next, ss, nid, t, em)

WrapNoEmailTest(r, next, ss, nid, t, em) ==
    IF BasicAuthOk(r) THEN
        IF VerifyToken(r.authz.token) THEN Out(Served(next), ss, nid)
        ELSE Out(Error(401, "Basic", "Unauthorized"), ss, nid)
    ELSE IF HasBearer(r) THEN
        IF VerifyToken(r.authz.token) THEN Out(Served(next), ss, nid)
        ELSE Out(Error(401, "Bearer", "Unauthorized"), ss, nid)
    ELSE IF r.path = PathLogin THEN Login(r, ss, nid)
    ELSE IF r.path = PathCallback THEN Callback(r, ss, nid, t)
    ELSE IF r.path = PathLogout THEN Logout(r, ss, nid)
    ELSE SessionFlow(r, next, ss, nid, t, em)

\* The handler AuthMiddleware.Wrap(next, email) returns, applied to r.
Wrap(r, next, ss, nid, t, em) ==
    IF BasicAuthOk(r) THEN
        IF VerifyToken(r.authz.token) THEN Out(Served(next), ss, nid)
        ELSE Out(Error(401, "Basic", "Unauthorized"), ss, nid)
    ELSE IF HasBearer(r) THEN
        IF VerifyToken(r.authz.token) THEN Out(Served(next), ss, nid)
        ELSE Out(Error(401, "Bearer", "Unauthorized"), ss, nid)
    ELSE IF em = "" THEN Out(Error(401, "Basic", "Unauthorized"), ss, nid)
    ELSE IF r.path = PathLogin THEN Login(r, ss, nid)
    ELSE IF r.path = PathCallback THEN Callback(r, ss, nid, t)
    ELSE IF r.path = PathLogout THEN Logout(r, ss, nid)
    ELSE SessionFlow(r, next, ss, nid, t, em)

----------------------------------------------------------------------------
(* The dispatcher of NewCmdUp *)

\* glob.MustCompile(pattern).Match(path): "*" stands for any run of chunks.
RECURSIVE GlobMatch(_, _)
GlobMatch(pat, s) ==
    IF pat = <<>> THEN s = <<>>
    ELSE IF Head(pat) = "*"
        THEN GlobMatch(Tail(pat), s) \/ (s # <<>> /\ GlobMatch(pat, Tail(s)))
    ELSE s # <<>> /\ Head(s) = Head(pat) /\ GlobMatch(Tail(pat), Tail(s))

\* The loop over a.Config.PublicRoutes
RECURSIVE ApplyPublicRoutes(_, _, _)
ApplyPublicRoutes(routes, path, flag) ==
    IF routes = <<>> THEN flag
    ELSE ApplyPublicRoutes(Tail(routes), path,
                           IF GlobMatch(Head(routes), path) THEN FALSE ELSE flag)

\* The loop over a.Config.PrivateRoutes
RECURSIVE ApplyPrivateRoutes(_, _, _)
ApplyPrivateRoutes(routes, path, flag) ==
    IF routes = <<>> THEN flag
    ELSE ApplyPrivateRoutes(Tail(routes), path,
                            IF GlobMatch(Head(routes), path) THEN TRUE ELSE flag)

isPrivateRoutePublicLast(config, path) ==
    ApplyPublicRoutes(config.publicRoutes, path,
        ApplyPrivateRoutes(config.privateRoutes, path, config.private))

\* isPrivateRoute once both loops have run
isPrivateRoute(config, path) ==
    ApplyPrivateRoutes(config.privateRoutes, path,
        ApplyPublicRoutes(config.publicRoutes, path, config.private))

\* strings.TrimSuffix(r.Host, "." + domain), on host labels
appnameOf(host) ==
    IF IsSuffix(Domain, host) /\ Len(host) > Len(Domain)
    THEN SubSeq(host, 1, Len(host) - Len(Domain))
    ELSE host

\* strings.HasPrefix(r.URL.Path, "/_auth")
HasAuthPrefix(path) == IsPrefix(<<"/_auth">>, path)

\* isPrivateRoute || strings.HasPrefix(r.URL.Path, "/_auth")
ShouldWrapPrivateOnly(config, path) == isPrivateRoute(config, path)
ShouldWrap(config, path) == isPrivateRoute(config, path) \/ HasAuthPrefix(path)

ByDispatcher(status, location) ==
    Response(status, "dispatcher", "", location, "", NoCookie, NoOauth)

\* r.URL.RawQuery: the query parameters of the request
RawQuery(r) == [state |-> r.qState, code |-> r.qCode, redirect |-> r.qRedirect]

\* target := r.URL with Scheme "https" and Host "www." + domain;
\* target.String() keeps the path and the query of the request.
ApexTargetNoQuery(r) ==
    [scheme |-> "https", host |-> <<"www">> \o Domain, path |-> r.path,
     query |-> [state |-> "", code |-> "", redirect |-> ""]]
ApexTarget(r) ==
    [scheme |-> "https", host |-> <<"www">> \o Domain, path |-> r.path,
     query |-> RawQuery(r)]

\* The handler function of the server, applied to r.
Dispatch(r, ss, nid, t, em) ==
    IF r.host = Domain
    THEN Out(ByDispatcher(307, ApexTarget(r)), ss, nid)
    ELSE IF ~r.app.exists
    THEN Out([ByDispatcher(404, <<>>) EXCEPT !.appname = appnameOf(r.host)], ss, nid)
    ELSE
    LET isWorker == r.app.entrypoint \notin
            {"smallweb:webdav", "smallweb:cli", "smallweb:docs",
             "smallweb:static", "smallweb:editor"}
        handler == IF isWorker THEN "worker" ELSE r.app.entrypoint
    IN
    IF isWorker /\ ~r.env.workerOk
    THEN Out([ByDispatcher(500, <<>>) EXCEPT !.appname = appnameOf(r.host),
                                             !.worker = "failed"], ss, nid)
    ELSE
    LET wrap == ShouldWrap(r.app.config, r.path)
        out == IF wrap THEN Wrap(r, handler, ss, nid, t, em)
               ELSE Out(Served(handler), ss, nid)
    IN [out EXCEPT !.resp.private = isPrivateRoute(r.app.config, r.path),
                   !.resp.wrapped = wrap,
                   !.resp.appname = appnameOf(r.host),
                   !.resp.worker = IF isWorker THEN "stopped" ELSE "none"]

----------------------------------------------------------------------------
(* Requests *)

NoAuthz == [scheme |-> "none", decodable |-> FALSE, token |-> <<>>]

Tokens ==
    { <<"pub", ".", "sec">>,      \* the stored token
      <<"pub", ".", "bad">>,      \* wrong secret
      <<"nop", ".", "sec">>,      \* unknown public id
      <<"pub">>,                  \* no separator
      <<".", "sec">> }            \* empty public id

Credentials ==
    { [scheme |-> s, decodable |-> TRUE, token |-> tok] :
        s \in {"Basic", "Bearer"}, tok \in Tokens }

\* A Basic header that is not base64 of user:password
GarbledBasic == [scheme |-> "Basic", decodable |-> FALSE, token |-> <<>>]

Globs == { <<"/page">>, <<"/_auth", "*">>, <<"*">> }
MaxRoutes == 2

RouteLists == UNION { [1..n -> Globs] : n \in 0..MaxRoutes }

Configs ==
    [private : BOOLEAN, publicRoutes : RouteLists, privateRoutes : RouteLists]

PrivateConfig == [private |-> TRUE, publicRoutes |-> <<>>, privateRoutes |-> <<>>]

PublicConfig == [private |-> FALSE, publicRoutes |-> <<>>, privateRoutes |-> <<>>]

\* A private app whose config declares everything under /_auth public
PublicAuthConfig ==
    [private |-> TRUE, publicRoutes |-> << <<"/_auth", "*">> >>, privateRoutes |-> <<>>]

PrivateApp == [exists |-> TRUE, entrypoint |-> "main.ts", config |-> PrivateConfig]

BaseEnv ==
    [stateOk |-> TRUE, state |-> "s1", exchangeOk |-> TRUE, userinfo |-> Owner,
     storeFail |-> "none", workerOk |-> TRUE]

BaseReq ==
    [host |-> HostBlog, path |-> PathPage, authz |-> NoAuthz, cookie |-> <<>>,
     oauth |-> <<>>, qState |-> "", qCode |-> "", qRedirect |-> "",
     env |-> BaseEnv, app |-> PrivateApp]

Paths == {PathLogin, PathCallback, PathLogout, PathPage, PathAuthors}
AppHosts == {HostBlog, HostDocs}

\* Session cookie values: the ids that may be stored and 0, which never is.
CookieValues == {<<>>} \cup { <<i>> : i \in 0..MaxSessions }

OauthCookies ==
    { <<>>,
      <<[decodable |-> FALSE, state |-> "", redirect |-> ""]>>,
      <<[decodable |-> TRUE, state |-> "s1", redirect |-> "/back"]>>,
      <<[decodable |-> TRUE, state |-> "s2", redirect |-> ""]>>,
      <<[decodable |-> TRUE, state |-> "", redirect |-> ""]>> }

\* What the provider and the store may answer during a callback.
CallbackEnvs ==
    { [BaseEnv EXCEPT !.exchangeOk = FALSE] }
    \cup { [BaseEnv EXCEPT !.userinfo = u] :
            u \in {"neterr", "non200", "undecodable", Owner, Other} }
    \cup { [BaseEnv EXCEPT !.storeFail = "insert"] }

\* Requests carrying token credentials
TokenRequests ==
    { [BaseReq EXCEPT !.authz = a, !.path = p, !.cookie = c] :
        a \in Credentials, p \in Paths, c \in {<<>>, <<1>>} }

\* Requests of the session branch
SessionRequests ==
    { [BaseReq EXCEPT !.host = h, !.path = p, !.authz = a, !.cookie = c,
                      !.env.storeFail = f] :
        h \in AppHosts, p \in {PathPage, PathAuthors}, a \in {NoAuthz, GarbledBasic},
        c \in CookieValues, f \in {"none", "get", "delete", "update"} }

LogoutRequests ==
    { [BaseReq EXCEPT !.host = h, !.path = PathLogout, !.cookie = c,
                      !.qRedirect = rd, !.env.storeFail = f] :
        h \in AppHosts, c \in CookieValues, rd \in {"", "/back"},
        f \in {"none", "delete"} }

LoginRequests ==
    { [BaseReq EXCEPT !.host = h, !.path = PathLogin, !.cookie = c,
                      !.qRedirect = rd, !.env.stateOk = ok] :
        h \in AppHosts, c \in {<<>>, <<1>>}, rd \in {"", "/back"}, ok \in BOOLEAN }

CallbackRequests ==
    { [BaseReq EXCEPT !.host = h, !.path = PathCallback, !.oauth = o,
                      !.qState = st, !.qCode = code] :
        h \in AppHosts, o \in OauthCookies, st \in {"", "s1"}, code \in {"", "c"} }
    \cup
    { [BaseReq EXCEPT !.host = h, !.path = PathCallback, !.cookie = c,
                      !.oauth = <<[decodable |-> TRUE, state |-> "s1",
                                   redirect |-> "/back"]>>,
                      !.qState = "s1", !.qCode = "c", !.env = e] :
        h \in AppHosts, c \in {<<>>, <<1>>}, e \in CallbackEnvs }

\* Requests exercising the dispatcher: every config, with and without a
\* token; apex host, missing app, built-in handlers, worker start failure.
ConfigRequests ==
    { [BaseReq EXCEPT !.path = p, !.app.config = c, !.authz = a] :
        p \in Paths, c \in Configs,
        a \in {NoAuthz, [scheme |-> "Bearer", decodable |-> TRUE,
                        token |-> <<"pub", ".", "sec">>]} }

\* The three /_auth paths on apps whose config does not make them private
AuthPathRequests ==
    { [BaseReq EXCEPT !.path = p, !.app.config = c, !.authz = a, !.cookie = ck] :
        p \in AuthPaths, c \in {PublicConfig, PublicAuthConfig},
        a \in {NoAuthz, GarbledBasic,
               [scheme |-> "Basic", decodable |-> TRUE, token |-> <<"pub", ".", "sec">>],
               [scheme |-> "Bearer", decodable |-> TRUE, token |-> <<"pub", ".", "bad">>]},
        ck \in {<<>>, <<1>>} }

DispatchRequests ==
    { [BaseReq EXCEPT !.host = h, !.path = p, !.app.exists = x,
                      !.app.entrypoint = e, !.env.workerOk = w] :
        h \in AppHosts \cup {Domain}, p \in {PathPage, PathLogin},
        x \in BOOLEAN, e \in {"main.ts", "smallweb:docs"}, w \in BOOLEAN }

\* Requests to the apex domain, with and without query, credentials, cookie
ApexRequests ==
    { [BaseReq EXCEPT !.host = Domain, !.path = p, !.qRedirect = rd, !.qState = st,
                      !.authz = a, !.cookie = c] :
        p \in Paths, rd \in {"", "/back"}, st \in {"", "s1"},
        a \in {NoAuthz, [scheme |-> "Bearer", decodable |-> TRUE,
                        token |-> <<"pub", ".", "sec">>]},
        c \in {<<>>, <<1>>} }

\* Hosts with two labels in front of the domain, outside the domain, and
\* without a dot
OddHosts == { <<"a", "b">> \o Domain, <<"foo", "other", "com">>, <<"blog">> }

AliasRequests ==
    { [BaseReq EXCEPT !.host = h, !.app.exists = x, !.app.config = c] :
        h \in OddHosts, x \in BOOLEAN, c \in {PrivateConfig, PublicConfig} }

Requests ==
    TokenRequests \cup SessionRequests \cup LogoutRequests \cup LoginRequests
    \cup CallbackRequests \cup AuthPathRequests \cup DispatchRequests
    \cup ApexRequests \cup AliasRequests

NoResp == ByDispatcher(0, <<>>)

----------------------------------------------------------------------------
(* The `up` server as a state machine *)

\* The session table outlives the process: a server restarted without a
\* required email may find a session stored under an earlier configuration.
StoredBefore == CreateSession(<< >>, 1, Owner, HostBlog, 0)

Init ==
    /\ pc = "idle"
    /\ now = 0
    /\ \/ email = Owner /\ sessions = << >> /\ nextId = 1
       \/ email = "" /\ sessions = << >> /\ nextId = 1
       \/ email = "" /\ sessions = StoredBefore /\ nextId = 2
    /\ req = BaseReq
    /\ resp = NoResp
    /\ pre = << >>
    /\ logsDir = TRUE
    /\ logs = << >>
    /\ hreq = << >>
    /\ hres = << >>
    /\ cronMinute = 0
    /\ cronLog = << >>
    /\ procs = << >>

\* One request drawn from Rs, from arrival to the return of the server's
\* handler.
Serve(Rs) ==
    /\ pc = "idle"
    /\ \E r \in Rs :
        LET out == Dispatch(r, sessions, nextId, now, email) IN
        /\ out.nextId <= MaxSessions + 1
        /\ req' = r
        /\ resp' = out.resp
        /\ sessions' = out.sessions
        /\ nextId' = out.nextId
    /\ pre' = sessions
    /\ pc' = "done"
    /\ UNCHANGED <<now, email, serveVars, cronVars, raceVars>>

ServeRequest == Serve(Requests)

\* The response has gone out; the server waits for the next request.
Return ==
    /\ pc = "done"
    /\ pc' = "idle"
    /\ req' = BaseReq
    /\ resp' = NoResp
    /\ pre' = sessions
    /\ UNCHANGED <<now, email, sessions, nextId, serveVars, cronVars, raceVars>>

\* Time passes between requests.
Advance ==
    /\ pc = "idle"
    /\ \E d \in Steps :
        /\ now + d <= MaxTime
        /\ now' = now + d
    /\ UNCHANGED <<pc, email, sessions, nextId, req, resp, pre, serveVars, cronVars, raceVars>>

Next == ServeRequest \/ Return \/ Advance

Spec == Init /\ [][Next]_vars

\* The same server fed every app config, for the route privacy rules.
ServeConfig == Serve(ConfigRequests)

NextConfig == ServeConfig \/ Return

SpecConfig == Init /\ [][NextConfig]_vars

----------------------------------------------------------------------------
(* Vocabulary of the claims about the `up` server.  All of it speaks of the  *)
(* request just served (pc = "done"): req, the answer resp, the session     *)
(* table before (pre) and after (sessions).                                 *)

\* The one credential the token table accepts.
GoodToken == <<"pub", ".", "sec">>

BasicPresent == req.authz.scheme = "Basic" /\ req.authz.decodable
BearerPresent == req.authz.scheme = "Bearer"
TokenPresent == BasicPresent \/ BearerPresent
TokenVerifies == TokenPresent /\ req.authz.token = GoodToken

\* The request went through the auth middleware.
Wrapped == pc = "done" /\ resp.wrapped

\* The wrapped next handler was invoked (and answered).
NextInvoked == resp.by \notin {"middleware", "dispatcher"}

\* The session cookie names a row of the table as it was on arrival.
CookieNamesRow == req.cookie # <<>> /\ req.cookie[1] \in DOMAIN pre
Row == pre[req.cookie[1]]

\* The request is one the session branch decides.
SessionBranch ==
    /\ Wrapped
    /\ ~TokenPresent
    /\ email # ""
    /\ req.path \notin AuthPaths

\* Every row but the one the cookie names is as it was.
OthersUntouched ==
    \A i \in DOMAIN pre \ {req.cookie[1]} : i \in DOMAIN sessions /\ sessions[i] = pre[i]

----------------------------------------------------------------------------
\* C1: the wrapped handler is invoked only if (1) Basic credentials are
\* present and verify, or (2) no Basic credentials and a Bearer token is
\* present and verifies, or (3) no token credentials, requiredEmail is set,
\* the path is none of the three /_auth paths and the session cookie names a
\* stored session of this host that is not expired and belongs to
\* requiredEmail.  Present but invalid Basic or Bearer credentials are
\* answered 401 and next is not invoked, whatever the session cookie.
C1_NextOnlyIfAuthenticated ==
    Wrapped =>
        /\ NextInvoked =>
            \/ BasicPresent /\ req.authz.token = GoodToken
            \/ ~BasicPresent /\ BearerPresent /\ req.authz.token = GoodToken
            \/ /\ ~TokenPresent
               /\ email # ""
               /\ req.path \notin AuthPaths
               /\ CookieNamesRow
               /\ Row.domain = req.host
               /\ now < Row.expiresAt
               /\ Row.email = email
        /\ (TokenPresent /\ req.authz.token # GoodToken) =>
            resp.status = 401 /\ ~NextInvoked

\* Invalid Basic credentials together with a session cookie that alone would
\* have let the request through: answered 401.
C1_Witness ==
    /\ Wrapped
    /\ BasicPresent
    /\ req.authz.token # GoodToken
    /\ req.path \notin AuthPaths
    /\ CookieNamesRow
    /\ Row.domain = req.host
    /\ Row.email = email
    /\ now + SevenDays <= Row.expiresAt
    /\ resp.status = 401

----------------------------------------------------------------------------
\* The request reached an app: not the apex host, the app loaded, its worker
\* (if any) started.
ReachedApp == pc = "done" /\ resp.by # "dispatcher"

\* C2 as stated: a request to /_auth/login, /_auth/callback or /_auth/logout
\* is answered by the auth middleware and never by the app's handler,
\* whatever its credentials, cookies and the app's privacy config.
C2_Original ==
    (ReachedApp /\ req.path \in AuthPaths) => resp.by = "middleware"

\* C2 amended: such a request always goes through the auth middleware,
\* whatever the privacy config; it is answered by the middleware, and not
\* passed to the app's handler, unless it carries Basic or Bearer
\* credentials whose token verifies, and then it is passed to the handler.
C2_AuthPathsIntercepted ==
    (ReachedApp /\ req.path \in AuthPaths) =>
        /\ resp.wrapped
        /\ ~TokenVerifies => resp.by = "middleware"
        /\ TokenVerifies => NextInvoked

\* /_auth/login on an app whose config declares /_auth/* public, with a
\* session cookie and no token: answered by the middleware.
C2_Witness ==
    /\ ReachedApp
    /\ req.path = PathLogin
    /\ req.app.config = PublicAuthConfig
    /\ ~resp.private
    /\ ~TokenPresent
    /\ req.cookie # <<>>
    /\ resp.by = "middleware"

----------------------------------------------------------------------------
\* The callback's state check fails: no oauth-store cookie, an undecodable
\* one, or a state different from the query's.
StateMismatch ==
    \/ req.oauth = <<>>
    \/ ~req.oauth[1].decodable
    \/ req.oauth[1].state # req.qState

\* C3: a session row is created, and a session cookie set, only by a
\* /_auth/callback request whose `state` equals the state in the oauth-store
\* cookie, whose code exchange succeeded and whose userinfo call returned a
\* decodable 200 answer; a callback whose state differs is answered 401 by
\* the callback branch, and in any case changes no session and sets no
\* session cookie.
C3_SessionOnlyFromCallback ==
    pc = "done" =>
        /\ ((\E i \in DOMAIN sessions : i \notin DOMAIN pre)
                \/ resp.setSession.kind = "set") =>
            /\ req.path = PathCallback
            /\ ~StateMismatch
            /\ req.qCode # ""
            /\ req.env.exchangeOk
            /\ req.env.userinfo \in {Owner, Other}
            /\ DOMAIN sessions = DOMAIN pre \cup {resp.setSession.value}
            /\ resp.setSession.value \notin DOMAIN pre
            /\ sessions[resp.setSession.value] =
                 [email |-> req.env.userinfo, domain |-> req.host,
                  createdAt |-> now, expiresAt |-> now + FourteenDays]
        /\ (req.path = PathCallback /\ StateMismatch) =>
            /\ sessions = pre
            /\ resp.setSession.kind = "none"
            /\ (Wrapped /\ ~TokenPresent /\ email # "") => resp.status = 401

\* A callback that passed every check: the row is there and the cookie names it.
C3_Witness ==
    /\ pc = "done"
    /\ req.path = PathCallback
    /\ resp.status = 303
    /\ resp.setSession.kind = "set"
    /\ resp.setSession.value \in DOMAIN sessions
    /\ resp.setSession.value \notin DOMAIN pre
    /\ pre # << >>

----------------------------------------------------------------------------
\* The ids a cookie may present and the hosts it may be presented on.
CookieIds == 0..MaxSessions

\* C4 as stated: Get(id, host) returns a session if and only if a session
\* with that id is stored with the same host and now < expiresAt; unknown id,
\* other host and expired session are all not-found.
C4_Original ==
    \A id \in CookieIds, h \in AppHosts :
        GetSession(sessions, id, h).ok <=>
            /\ id \in DOMAIN sessions
            /\ sessions[id].domain = h
            /\ now < sessions[id].expiresAt

\* C4 amended: Get(id, host) returns the stored session if and only if a
\* session with that id is stored and its domain is the presented host,
\* whatever its expiry; it is not-found for an unknown id and for another
\* host.  Expiry is the middleware's test on the session Get returned: the
\* session is rejected (row deleted, cookie expired, 303 to login) exactly
\* when now is after expiresAt.  A row's domain is the host of the callback
\* that created it.
C4_GetSessionByIdAndHost ==
    /\ \A id \in CookieIds, h \in AppHosts :
        LET g == GetSession(sessions, id, h) IN
        /\ g.ok <=> (id \in DOMAIN sessions /\ sessions[id].domain = h)
        /\ g.ok => g.session = sessions[id]
    /\ (pc = "done" /\ \E i \in DOMAIN sessions : i \notin DOMAIN pre) =>
        \A i \in DOMAIN sessions \ DOMAIN pre : sessions[i].domain = req.host
    /\ (SessionBranch /\ CookieNamesRow /\ Row.domain = req.host
            /\ req.env.storeFail = "none") =>
        /\ now > Row.expiresAt <=>
            (req.cookie[1] \notin DOMAIN sessions /\ resp.location = <<"login", req.path>>)
        /\ now > Row.expiresAt => resp.status = 303 /\ resp.setSession.kind = "expire"

\* Get returns a session that has expired; the middleware then deletes it.
C4_Witness ==
    /\ SessionBranch
    /\ CookieNamesRow
    /\ now > Row.expiresAt
    /\ GetSession(pre, req.cookie[1], req.host).ok
    /\ req.cookie[1] \notin DOMAIN sessions
    /\ resp.status = 303

----------------------------------------------------------------------------
\* The request authenticates through a valid session cookie: the session
\* branch decides it, and the cookie names a session of this host and of
\* requiredEmail that has not expired; the store answers.
ValidSessionHit ==
    /\ SessionBranch
    /\ CookieNamesRow
    /\ Row.domain = req.host
    /\ now <= Row.expiresAt
    /\ Row.email = email
    /\ req.env.storeFail = "none"

\* C5: on a request that authenticates through a valid session cookie, if
\* expiresAt - now < 7 days the stored expiresAt becomes now + 14 days, and
\* if expiresAt - now >= 7 days it stays; no other field of the session, and
\* no other session, changes.
C5_SlidingExpiry ==
    ValidSessionHit =>
        /\ Row.expiresAt - now < SevenDays =>
            sessions = [pre EXCEPT ![req.cookie[1]].expiresAt = now + FourteenDays]
        /\ Row.expiresAt - now >= SevenDays => sessions = pre

\* A hit six days before expiry moved expiresAt to now + 14 days.
C5_Witness ==
    /\ ValidSessionHit
    /\ Row.expiresAt - now < SevenDays
    /\ Row.expiresAt - now > 0
    /\ sessions[req.cookie[1]].expiresAt = now + FourteenDays
    /\ sessions[req.cookie[1]].expiresAt # Row.expiresAt
    /\ sessions[req.cookie[1]].createdAt = Row.createdAt

----------------------------------------------------------------------------
\* A request without token credentials presents a stored session, and the
\* store answers.
Presented ==
    /\ Wrapped
    /\ ~TokenPresent
    /\ email # ""
    /\ CookieNamesRow
    /\ req.env.storeFail = "none"

\* C6 as stated: the session is deleted on logout, on a mismatch found when
\* it is presented (stored domain differs from the host, or session email
\* differs from requiredEmail) and when it is found expired.
C6_Original ==
    (Presented /\ req.path \notin {PathLogin, PathCallback}) =>
        ((\/ req.path = PathLogout
          \/ Row.domain # req.host
          \/ Row.email # email
          \/ now > Row.expiresAt)
            => req.cookie[1] \notin DOMAIN sessions)

\* C6 amended: the session is deleted on logout and when it is found expired
\* (presented on its own host after expiresAt); after either, its id is no
\* longer in the store and every other session is as it was.  A mismatch
\* deletes nothing: a session presented on another host, or an unexpired one
\* whose email differs from requiredEmail, stays in the store unchanged.
C6_DeletedOnLogoutAndExpiry ==
    (Presented /\ req.path \notin {PathLogin, PathCallback}) =>
        /\ (req.path = PathLogout
                \/ (Row.domain = req.host /\ now > Row.expiresAt)) =>
            /\ req.cookie[1] \notin DOMAIN sessions
            /\ DOMAIN sessions = DOMAIN pre \ {req.cookie[1]}
            /\ OthersUntouched
        /\ (req.path # PathLogout /\ Row.domain # req.host) => sessions = pre
        /\ (req.path # PathLogout /\ Row.domain = req.host
                /\ now <= Row.expiresAt /\ Row.email # email) => sessions = pre

\* An expired session is presented on its own host while another session is
\* stored: the expired one is gone, the other one is still there.
C6_Witness ==
    /\ Presented
    /\ req.path = PathPage
    /\ Row.domain = req.host
    /\ now > Row.expiresAt
    /\ req.cookie[1] \notin DOMAIN sessions
    /\ DOMAIN sessions # {}

----------------------------------------------------------------------------
\* Some glob of the list matches the path.
AnyMatch(routes, path) == \E i \in 1..Len(routes) : GlobMatch(routes[i], path)

\* C7: for config private=P, publicRoutes=U, privateRoutes=R and path p the
\* computed privacy flag is (some r in R matches p) or (P and no u in U
\* matches p): a matching private route wins over a matching public route.
C7_PrivacyResolution ==
    ReachedApp =>
        (resp.private <=>
            (\/ AnyMatch(req.app.config.privateRoutes, req.path)
             \/ /\ req.app.config.private
                /\ ~AnyMatch(req.app.config.publicRoutes, req.path)))

\* A public app with a public and a private route that both match the path:
\* the flag is true.
C7_Witness ==
    /\ ReachedApp
    /\ ~req.app.config.private
    /\ AnyMatch(req.app.config.publicRoutes, req.path)
    /\ AnyMatch(req.app.config.privateRoutes, req.path)
    /\ Len(req.app.config.publicRoutes) = MaxRoutes
    /\ resp.private

----------------------------------------------------------------------------
(* Handler.ServeHTTP of the `serve` command: files and paths *)

\* A path is its directory (a sequence of names) and the stem and extension
\* of its last element: rootDir/blog/mod.ts is File(<<"www", "blog">>,
\* "mod", ".ts").
File(dir, stem, ext) == [dir |-> dir, stem |-> stem, ext |-> ext]

NoFile == File(<<>>, "", "")

rootDir == <<"www">>

extensions == <<".js", ".ts", ".jsx", ".tsx">>

\* path.Join(dir, name, ...): an empty element is dropped.
JoinDir(dir, name) == IF name = "" THEN dir ELSE dir \o <<name>>

\* exists: os.Stat finds the path.
exists(fs, path) == path \in fs.files

\* One loop over extensions: the index of the first extension, from i on,
\* whose candidate exists; 0 when the loop ends without a hit.
RECURSIVE FirstExt(_, _, _, _)
FirstExt(fs, dir, stem, i) ==
    IF i > Len(extensions) THEN 0
    ELSE IF exists(fs, File(dir, stem, extensions[i])) THEN i
    ELSE FirstExt(fs, dir, stem, i + 1)

Found(path) == [ok |-> TRUE, path |-> path]
NotFound == [ok |-> FALSE, path |-> NoFile]

inferEntrypointAliasBeforeMod(fs, root, alias) ==
    LET top == FirstExt(fs, root, alias, 1)
        mod == FirstExt(fs, JoinDir(root, alias), "mod", 1)
        own == FirstExt(fs, JoinDir(root, alias), alias, 1)
        html == File(JoinDir(root, alias), "index", ".html")
    IN  IF top # 0 THEN Found(File(root, alias, extensions[top]))
        ELSE IF own # 0 THEN Found(File(JoinDir(root, alias), alias, extensions[own]))
        ELSE IF mod # 0 THEN Found(File(JoinDir(root, alias), "mod", extensions[mod]))
        ELSE IF exists(fs, html) THEN Found(html)
        ELSE NotFound

inferEntrypoint(fs, root, alias) ==
    LET top == FirstExt(fs, root, alias, 1)
        mod == FirstExt(fs, JoinDir(root, alias), "mod", 1)
        own == FirstExt(fs, JoinDir(root, alias), alias, 1)
        html == File(JoinDir(root, alias), "index", ".html")
    IN  IF top # 0 THEN Found(File(root, alias, extensions[top]))
        ELSE IF mod # 0 THEN Found(File(JoinDir(root, alias), "mod", extensions[mod]))
        ELSE IF own # 0 THEN Found(File(JoinDir(root, alias), alias, extensions[own]))
        ELSE IF exists(fs, html) THEN Found(html)
        ELSE NotFound

\* The .env file of a directory
EnvPath(dir) == File(dir, "", ".env")

EmptyMap == [k \in {} |-> ""]

\* for k, v := range dirEnv { env[k] = v }
MergeKeepingBase(env, dirEnv) ==
    [k \in DOMAIN env \cup DOMAIN dirEnv |->
        IF k \in DOMAIN env THEN env[k] ELSE dirEnv[k]]
Merge(env, dirEnv) ==
    [k \in DOMAIN env \cup DOMAIN dirEnv |->
        IF k \in DOMAIN dirEnv THEN dirEnv[k] ELSE env[k]]

\* godotenv.Read of an existing file: its mapping, or a parse error.
godotenvRead(fs, path) == fs.env[path]

EnvOk(env) == [ok |-> TRUE, env |-> env]
EnvErr == [ok |-> FALSE, env |-> EmptyMap]

loadEnv(fs, root, entrypoint) ==
    IF entrypoint.ext = ".html" THEN EnvOk(EmptyMap)
    ELSE
    LET rootEnvPath == EnvPath(root)
        rootRead == IF exists(fs, rootEnvPath) THEN godotenvRead(fs, rootEnvPath)
                    ELSE [valid |-> TRUE, map |-> EmptyMap]
        envPath == EnvPath(entrypoint.dir)
    IN  IF ~rootRead.valid THEN EnvErr
        ELSE IF ~exists(fs, envPath) \/ envPath = rootEnvPath THEN EnvOk(rootRead.map)
        ELSE IF ~godotenvRead(fs, envPath).valid THEN EnvErr
        ELSE EnvOk(Merge(rootRead.map, godotenvRead(fs, envPath).map))

----------------------------------------------------------------------------
(* Handler.ServeHTTP *)

\* What ServeHTTP answered: status and body, who produced them ("error",
\* "static" or "evaluator"), the entrypoint resolved, the env handed to the
\* child (none when no child input was built) and the steps taken, in order.
Result(status, by, body, entrypoint, childEnv, events) ==
    [status |-> status, by |-> by, body |-> body, entrypoint |-> entrypoint,
     childEnv |-> childEnv, events |-> events, tempdir |-> "none",
     fileRoot |-> << >>]

\* A record of the access log; timestamp, duration, entrypoint and request
\* are left out.
LogRecord(response, output) == [response |-> response, logs |-> output]

\* writeLog: append to rootDir/.logs/<alias>.jsonl; the file is created when
\* missing, its directory is not, and the error is dropped by the caller.
writeLog(lg, ld, alias, record) ==
    IF ~ld THEN lg
    ELSE [a \in DOMAIN lg \cup {alias} |->
            IF a = alias
            THEN (IF a \in DOMAIN lg THEN lg[a] ELSE <<>>) \o <<record>>
            ELSE lg[a]]

HOut(res, lg) == [res |-> res, logs |-> lg]

\* os.MkdirTemp succeeded: the directory exists from here on.
InTempDir(res) == [res EXCEPT !.tempdir = "exists"]

\* defer os.RemoveAll(tempdir): runs when ServeHTTP returns, on the
\* directory and everything in it.
RemoveAllOnSuccess(out) ==
    IF out.res.by = "evaluator"
    THEN [out EXCEPT !.res.tempdir = "removed",
                     !.res.events = Append(@, "removeall")]
    ELSE out
RemoveAll(out) ==
    [out EXCEPT !.res.tempdir = "removed", !.res.events = Append(@, "removeall")]

\* ServeHTTP from the creation of the temporary directory to its return.
Evaluate(r, ld, lg, alias, entrypoint, env) ==
    LET fail(msg, events) ==
            HOut(InTempDir(Result(500, "error", msg, entrypoint, <<env>>, events)), lg)
    IN
    IF ~r.env.denoOk
    THEN fail("deno not found", <<"loadenv", "serialize", "mkdirtemp", "respond">>)
    ELSE IF ~r.env.encodeOk
    THEN fail("encode error", <<"loadenv", "serialize", "mkdirtemp", "respond">>)
    ELSE IF r.env.runErr
    THEN HOut(InTempDir(Result(500, "error", r.env.output, entrypoint, <<env>>,
                     <<"loadenv", "serialize", "mkdirtemp", "run", "log", "respond">>)),
              writeLog(lg, ld, alias, LogRecord(<<>>, r.env.output)))
    ELSE IF ~r.env.artifact.present
    THEN fail("open error", <<"loadenv", "serialize", "mkdirtemp", "run", "respond">>)
    ELSE IF ~r.env.artifact.decodable
    THEN fail("decode error", <<"loadenv", "serialize", "mkdirtemp", "run", "respond">>)
    ELSE HOut(InTempDir(Result(r.env.artifact.res.status, "evaluator",
                     r.env.artifact.res.body, entrypoint, <<env>>,
                     <<"loadenv", "serialize", "mkdirtemp", "run", "log", "respond">>)),
              writeLog(lg, ld, alias, LogRecord(<<r.env.artifact.res>>, r.env.output)))

\* path.Base(entrypoint) == "index.html"
IsIndexHtmlNever(entrypoint) == FALSE
IsIndexHtml(entrypoint) == entrypoint.stem = "index" /\ entrypoint.ext = ".html"

\* http.FileServer(http.Dir(path.Dir(entrypoint))) answers the request.
FileServer(entrypoint) ==
    [Result(200, "static", "file", entrypoint, <<>>, <<"fileserver">>)
        EXCEPT !.fileRoot = entrypoint.dir]

\* The handler applied to r, with ld and lg the .logs directory and the logs.
ServeHTTP(r, ld, lg) ==
    LET alias == Head(r.host)
        found == inferEntrypoint(r.fs, rootDir, alias)
        entrypoint == found.path
        env == loadEnv(r.fs, rootDir, entrypoint)
        fail(msg, childEnv, events) ==
            HOut(Result(500, "error", msg, entrypoint, childEnv, events), lg)
    IN
    IF ~found.ok THEN fail("entrypoint not found", <<>>, <<"respond">>)
    ELSE IF IsIndexHtml(entrypoint) THEN HOut(FileServer(entrypoint), lg)
    ELSE IF ~env.ok THEN fail("env error", <<>>, <<"loadenv", "respond">>)
    ELSE IF ~r.env.bodyOk THEN fail("read error", <<>>, <<"loadenv", "serialize", "respond">>)
    ELSE IF ~r.env.mkdirOk
    THEN fail("mkdirtemp error", <<>>, <<"loadenv", "serialize", "respond">>)
    ELSE RemoveAll(Evaluate(r, ld, lg, alias, entrypoint, env.env))

----------------------------------------------------------------------------
(* Requests to Handler.ServeHTTP *)

\* The candidates of inferEntrypoint, in the order of the documentation.
Candidates(root, alias) ==
    [i \in 1..4 |-> File(root, alias, extensions[i])]
    \o [i \in 1..4 |-> File(JoinDir(root, alias), "mod", extensions[i])]
    \o [i \in 1..4 |-> File(JoinDir(root, alias), alias, extensions[i])]
    \o << File(JoinDir(root, alias), "index", ".html") >>

Range(f) == { f[i] : i \in DOMAIN f }

EnvKeys == {"A", "B"}
EnvValues == {"1", "2"}

\* What a .env file may be: absent, unparsable, or a mapping.
EnvFiles ==
    { <<>>, <<[valid |-> FALSE, map |-> EmptyMap]>> }
    \cup { <<[valid |-> TRUE, map |-> m]>> :
            m \in UNION { [D -> EnvValues] : D \in SUBSET EnvKeys } }

\* The files under rootDir: the candidates given, and the two .env files.
Fs(files, alias, rootEnv, appEnv) ==
    LET rootPath == EnvPath(rootDir)
        appPath == EnvPath(JoinDir(rootDir, alias))
        envs == (IF rootEnv = <<>> THEN {} ELSE {rootPath})
                \cup (IF appEnv = <<>> THEN {} ELSE {appPath})
    IN [files |-> files \cup envs,
        env |-> [q \in envs |-> IF q = rootPath THEN rootEnv[1] ELSE appEnv[1]]]

Artifacts ==
    { [present |-> FALSE, decodable |-> FALSE, res |-> [status |-> 0, body |-> ""]],
      [present |-> TRUE, decodable |-> FALSE, res |-> [status |-> 0, body |-> ""]],
      [present |-> TRUE, decodable |-> TRUE, res |-> [status |-> 200, body |-> "hello"]],
      [present |-> TRUE, decodable |-> TRUE, res |-> [status |-> 404, body |-> "gone"]] }

GoodArtifact ==
    [present |-> TRUE, decodable |-> TRUE, res |-> [status |-> 200, body |-> "hello"]]

\* Everything around the handler goes well and the child succeeds.
GoodRun ==
    [bodyOk |-> TRUE, mkdirOk |-> TRUE, denoOk |-> TRUE, encodeOk |-> TRUE,
     runErr |-> FALSE, output |-> "", artifact |-> GoodArtifact]

HostOf(alias) == <<alias>> \o Domain

HReq(host, fs, env) == [host |-> host, fs |-> fs, env |-> env]

\* Every set of at most MaxFiles candidates, for two aliases.
ResolveRequests ==
    { HReq(HostOf(alias), Fs(files, alias, <<>>, <<>>), GoodRun) :
        alias \in {"blog"},
        files \in { F \in SUBSET Range(Candidates(rootDir, "blog")) :
                      Cardinality(F) <= MaxFiles } }
    \cup
    { HReq(HostOf(alias), Fs(files, alias, <<>>, <<>>), GoodRun) :
        alias \in {"mod"},
        files \in { F \in SUBSET Range(Candidates(rootDir, "mod")) :
                      Cardinality(F) <= MaxFiles } }

\* Every pair of .env files, for an entrypoint in rootDir, one in the app's
\* directory and an index.html.
EnvRequests ==
    { HReq(HostOf("blog"), Fs({f}, "blog", rootEnv, appEnv), GoodRun) :
        f \in { File(rootDir, "blog", ".ts"),
                File(JoinDir(rootDir, "blog"), "mod", ".ts"),
                File(JoinDir(rootDir, "blog"), "index", ".html") },
        rootEnv \in EnvFiles, appEnv \in EnvFiles }

\* What may go wrong from the body read to the child's artifact.
Runs ==
    { [GoodRun EXCEPT !.bodyOk = FALSE], [GoodRun EXCEPT !.mkdirOk = FALSE],
      [GoodRun EXCEPT !.denoOk = FALSE], [GoodRun EXCEPT !.encodeOk = FALSE] }
    \cup { [GoodRun EXCEPT !.runErr = e, !.output = o, !.artifact = a] :
            e \in BOOLEAN, o \in {"", "oops"}, a \in Artifacts }

EvalRequests ==
    { HReq(h, Fs({File(JoinDir(rootDir, "blog"), "mod", ".ts")}, "blog", <<>>, <<>>), run) :
        h \in {HostOf("blog"), <<"blog">>}, run \in Runs }

HandlerRequests == ResolveRequests \cup EnvRequests \cup EvalRequests

----------------------------------------------------------------------------
(* The `serve` handler as a state machine *)

InitServe ==
    /\ pc = "idle"
    /\ now = 0
    /\ email = ""
    /\ sessions = << >>
    /\ nextId = 1
    /\ req = BaseReq
    /\ resp = NoResp
    /\ pre = << >>
    /\ logsDir \in BOOLEAN
    /\ logs = << >>
    /\ hreq = << >>
    /\ hres = << >>
    /\ cronMinute = 0
    /\ cronLog = << >>
    /\ procs = << >>

\* One request, from arrival to the return of ServeHTTP.
Handle ==
    /\ pc = "idle"
    /\ \E r \in HandlerRequests :
        LET out == ServeHTTP(r, logsDir, logs) IN
        /\ \A a \in DOMAIN out.logs : Len(out.logs[a]) <= MaxLog
        /\ hreq' = r
        /\ hres' = out.res
        /\ logs' = out.logs
    /\ pc' = "done"
    /\ UNCHANGED <<logsDir, upVars, cronVars, raceVars>>

\* The response has gone out; the handler waits for the next request.
ReturnServe ==
    /\ pc = "done"
    /\ pc' = "idle"
    /\ hreq' = << >>
    /\ hres' = << >>
    /\ UNCHANGED <<logsDir, logs, upVars, cronVars, raceVars>>

NextServe == Handle \/ ReturnServe

SpecServe == InitServe /\ [][NextServe]_vars

----------------------------------------------------------------------------
(* Claims about Handler.ServeHTTP *)

Handled == pc = "done" /\ hreq # << >>

\* The position of the first candidate that exists, 0 when none does.
FirstHit(fs, cands) ==
    LET hits == { i \in DOMAIN cands : cands[i] \in fs.files }
    IN  IF hits = {} THEN 0 ELSE CHOOSE i \in hits : \A j \in hits : i <= j

\* The child was started: cmd.CombinedOutput was called.
ChildRan == \E i \in DOMAIN hres.events : hres.events[i] = "run"

\* The mapping of the .env file of dir, empty when the file is absent.
EnvOf(fs, dir) ==
    IF EnvPath(dir) \in fs.files THEN fs.env[EnvPath(dir)].map ELSE EmptyMap

EnvReadable(fs, dir) ==
    EnvPath(dir) \in fs.files => fs.env[EnvPath(dir)].valid

\* C8: inferEntrypoint returns the first existing candidate in the order
\* rootDir/alias.{js,ts,jsx,tsx}, rootDir/alias/mod.{js,ts,jsx,tsx},
\* rootDir/alias/alias.{js,ts,jsx,tsx}, rootDir/alias/index.html, and the
\* not-found error if and only if no candidate exists.
C8_FirstExistingCandidate ==
    Handled =>
        LET cands == Candidates(rootDir, Head(hreq.host))
            first == FirstHit(hreq.fs, cands)
        IN  /\ first # 0 => hres.entrypoint = cands[first]
            /\ first = 0 <=> hres.body = "entrypoint not found"
            /\ first = 0 => hres.status = 500 /\ hres.entrypoint = NoFile

\* Two groups of candidates exist and the earlier group wins: a mod file is
\* returned although rootDir/alias/alias.js exists too.
C8_Witness ==
    /\ Handled
    /\ File(<<"www", "blog">>, "blog", ".js") \in hreq.fs.files
    /\ File(<<"www", "blog">>, "mod", ".tsx") \in hreq.fs.files
    /\ hres.entrypoint = File(<<"www", "blog">>, "mod", ".tsx")

\* C9: for a non-HTML entrypoint the env composed by loadEnv has exactly the
\* keys of rootDir/.env and of the entrypoint directory's .env; a key of both
\* takes the app-local value, a key of one keeps its value, an absent file
\* contributes nothing and is no error, and a root file that is also the
\* entrypoint directory's file is applied once.
C9_EnvComposition ==
    Handled /\ hres.entrypoint # NoFile /\ hres.entrypoint.ext # ".html" =>
        LET root == EnvOf(hreq.fs, rootDir)
            local == EnvOf(hreq.fs, hres.entrypoint.dir)
        IN  /\ EnvReadable(hreq.fs, rootDir) /\ EnvReadable(hreq.fs, hres.entrypoint.dir)
                => hres.body # "env error"
            /\ hres.childEnv # << >> =>
                LET env == hres.childEnv[1] IN
                /\ DOMAIN env = DOMAIN root \cup DOMAIN local
                /\ \A k \in DOMAIN local : env[k] = local[k]
                /\ \A k \in DOMAIN root \ DOMAIN local : env[k] = root[k]
                /\ hres.entrypoint.dir = rootDir => env = root

\* Both files define A with different values and only the root file defines
\* B: the child sees the app-local A and the root's B.
C9_Witness ==
    /\ Handled
    /\ hres.entrypoint = File(<<"www", "blog">>, "mod", ".ts")
    /\ EnvOf(hreq.fs, rootDir) = [k \in {"A", "B"} |-> "1"]
    /\ EnvOf(hreq.fs, <<"www", "blog">>) = [k \in {"A"} |-> "2"]
    /\ hres.childEnv = << [k \in {"A", "B"} |-> IF k = "A" THEN "2" ELSE "1"] >>

\* C10: the request succeeds only if the child exits with code 0 and the
\* artifact exists and decodes; on a non-zero exit, a missing artifact or an
\* undecodable artifact the answer is 500 and its body is the child's
\* combined output.
C10_FailureBodyIsChildOutput ==
    Handled /\ ChildRan =>
        LET run == hreq.env
            failed == run.runErr \/ ~run.artifact.present \/ ~run.artifact.decodable
        IN  /\ hres.by = "evaluator" => ~failed
            /\ failed => hres.status = 500 /\ hres.body = run.output

\* The records of the log file of alias, none when the file does not exist.
LogOf(lg, alias) == IF alias \in DOMAIN lg THEN lg[alias] ELSE << >>

\* The step in which ServeHTTP handles one request.
HandleStep == pc = "idle" /\ pc' = "done" /\ hreq' # << >>

\* C11: every request for which the evaluator child is run appends exactly
\* one record to rootDir/.logs/<alias>.jsonl; the record has a response
\* exactly when the child exited with 0 and left a decodable artifact, and
\* on every failure it has no response and carries the combined output.
C11_OneRecordPerRun ==
    [][ HandleStep /\ logsDir /\ ChildRan' =>
            LET alias == Head(hreq'.host)
                run == hreq'.env
                ok == ~run.runErr /\ run.artifact.present /\ run.artifact.decodable
                old == LogOf(logs, alias)
                new == LogOf(logs', alias)
            IN  /\ Len(new) = Len(old) + 1
                /\ SubSeq(new, 1, Len(old)) = old
                /\ new[Len(new)].logs = run.output
                /\ new[Len(new)].response # << >> <=> ok
                /\ \A a \in DOMAIN logs \ {alias} : LogOf(logs', a) = logs[a]
      ]_vars

\* os.MkdirTemp was called and succeeded.
TempDirCreated == \E i \in DOMAIN hres.events : hres.events[i] = "mkdirtemp"

\* C12: the temporary directory created for a request is removed on every
\* exit path of ServeHTTP taken after its creation: once ServeHTTP has
\* returned, the directory and the artifact in it no longer exist, and the
\* removal is the last thing the handler did.
C12_TempDirRemoved ==
    Handled =>
        /\ TempDirCreated <=> hres.tempdir = "removed"
        /\ ~TempDirCreated <=> hres.tempdir = "none"
        /\ TempDirCreated => hres.events[Len(hres.events)] = "removeall"

\* The directory is gone although the artifact was never written.
C12_Witness ==
    /\ Handled
    /\ ChildRan
    /\ ~hreq.env.runErr
    /\ ~hreq.env.artifact.present
    /\ hres.status = 500
    /\ hres.tempdir = "removed"

----------------------------------------------------------------------------
(* The cron driver of NewCmdUp *)

\* time.Minute, in seconds, and the minutes of an hour
SecondsPerMinute == 60
MinutesPerHour == 60

\* time.Now().Truncate(time.Minute), on a clock that counts seconds
TruncateNot(t) == t
Truncate(t) == t - (t % SecondsPerMinute)

\* parser.Parse: the schedules of the model have "*" in every field but the
\* minute; a schedule is the set of minutes of the hour it names.
Schedules ==
    [ spec \in {"* * * * *", "*/2 * * * *", "3 * * * *"} |->
        CASE spec = "* * * * *"   -> 0 .. (MinutesPerHour - 1)
          [] spec = "*/2 * * * *" -> { m \in 0 .. (MinutesPerHour - 1) : m % 2 = 0 }
          [] spec = "3 * * * *"   -> {3} ]

Parse(spec) ==
    IF spec \in DOMAIN Schedules
    THEN [ok |-> TRUE, minutes |-> Schedules[spec]]
    ELSE [ok |-> FALSE, minutes |-> {}]

\* The first minute from m on that the schedule names.
RECURSIVE NextMinute(_, _)
NextMinute(sched, m) ==
    IF (m % MinutesPerHour) \in sched.minutes THEN m ELSE NextMinute(sched, m + 1)

\* sched.Next(t): the earliest activation time strictly after t.
schedNext(sched, t) ==
    SecondsPerMinute * NextMinute(sched, (t \div SecondsPerMinute) + 1)

\* app.ListApps(rootDir), and a.Config.Crons of each app
CronApps == <<"blog", "docs">>

Crons ==
    [ a \in {"blog", "docs"} |->
        IF a = "blog"
        THEN << [schedule |-> "* * * * *", args |-> "tick"],
                [schedule |-> "*/2 * * * *", args |-> "even"],
                [schedule |-> "every minute", args |-> "never"] >>
        ELSE << [schedule |-> "3 * * * *", args |-> "third"] >> ]

\* One step of the callback on entry `job` of app a, for the minute `at`:
\* did is "load", "parse", "command" (the step failed and was printed) or
\* "run" (command.Run was called; ok is its outcome).
Step(a, job, did, ok, at) ==
    [app |-> a, job |-> job, did |-> did, ok |-> ok, at |-> at]

\* The loop over the jobs with `break` in the place of every `continue`.
RECURSIVE RunJobsStopAtFailure(_, _, _, _)
RunJobsStopAtFailure(a, i, rounded, env) ==
    IF i > Len(Crons[a]) THEN << >>
    ELSE
    LET job == Crons[a][i]
        sched == Parse(job.schedule)
        rest == RunJobsStopAtFailure(a, i + 1, rounded, env)
    IN  IF ~sched.ok THEN << Step(a, i, "parse", FALSE, rounded) >>
        ELSE IF schedNext(sched, rounded - 1) # rounded THEN rest
        ELSE IF <<a, i>> \in env.commandFail
        THEN << Step(a, i, "command", FALSE, rounded) >>
        ELSE << Step(a, i, "run", <<a, i>> \notin env.runFail, rounded) >> \o rest

\* The jobs of app a from the i-th on, for the minute `rounded`: the steps
\* taken on them, in order. A schedule that does not parse and a command
\* that cannot be built are printed and the loop continues with the next
\* job; a job that is not due is passed over in silence.
RECURSIVE RunJobs(_, _, _, _)
RunJobs(a, i, rounded, env) ==
    IF i > Len(Crons[a]) THEN << >>
    ELSE
    LET job == Crons[a][i]
        sched == Parse(job.schedule)
        rest == RunJobs(a, i + 1, rounded, env)
    IN  IF ~sched.ok THEN << Step(a, i, "parse", FALSE, rounded) >> \o rest
        ELSE IF schedNext(sched, rounded - 1) # rounded THEN rest
        ELSE IF <<a, i>> \in env.commandFail
        THEN << Step(a, i, "command", FALSE, rounded) >> \o rest
        ELSE << Step(a, i, "run", <<a, i>> \notin env.runFail, rounded) >> \o rest

\* The apps from the i-th on: an app that does not load is printed and
\* skipped.
RECURSIVE RunApps(_, _, _, _)
RunApps(apps, i, rounded, env) ==
    IF i > Len(apps) THEN << >>
    ELSE IF apps[i] = env.loadFail
    THEN << Step(apps[i], 0, "load", FALSE, rounded) >>
            \o RunApps(apps, i + 1, rounded, env)
    ELSE RunJobs(apps[i], 1, rounded, env) \o RunApps(apps, i + 1, rounded, env)

IsRun(step) == step.did = "run"
IsPrinted(step) == ~step.ok

\* The function registered under "* * * * *", run at time tnow for the tick
\* of minute boundary `tick`: ran are the commands run, printed the errors
\* written with fmt.Println.
CronFunc(tick, tnow, env) ==
    LET rounded == Truncate(tnow)
        apps == IF env.listOk THEN CronApps ELSE << >>
        steps == RunApps(apps, 1, rounded, env)
    IN  [tick |-> tick, t |-> rounded, env |-> env,
         ran |-> SelectSeq(steps, IsRun),
         printed |-> SelectSeq(steps, IsPrinted)]

GoodCron == [listOk |-> TRUE, loadFail |-> "", commandFail |-> {}, runFail |-> {}]

\* What may go wrong in one run of the callback: the listing, the load of
\* one app, the command or the run of one entry or of every entry.
CronEntries == { <<a, j>> : a \in {"blog", "docs"}, j \in 1 .. 3 }

CronEnvs ==
    { GoodCron,
      [GoodCron EXCEPT !.listOk = FALSE],
      [GoodCron EXCEPT !.loadFail = "blog"],
      [GoodCron EXCEPT !.commandFail = {<<"blog", 1>>}],
      [GoodCron EXCEPT !.commandFail = CronEntries],
      [GoodCron EXCEPT !.runFail = {<<"blog", 1>>}],
      [GoodCron EXCEPT !.runFail = CronEntries] }

\* How long after the minute boundary the callback reads the clock, in seconds
Delays == {0, 59}

InitCron ==
    /\ pc = "idle"
    /\ now = 0
    /\ email = ""
    /\ sessions = << >>
    /\ nextId = 1
    /\ req = BaseReq
    /\ resp = NoResp
    /\ pre = << >>
    /\ logsDir = TRUE
    /\ logs = << >>
    /\ hreq = << >>
    /\ hres = << >>
    /\ cronMinute = 0
    /\ cronLog = << >>
    /\ procs = << >>

\* A minute boundary passes and the driver ticks: the callback runs.
CronTick ==
    /\ cronMinute < MaxMinutes
    /\ cronMinute' = cronMinute + 1
    /\ \E d \in Delays, env \in CronEnvs :
        cronLog' = Append(cronLog,
            CronFunc(cronMinute + 1, SecondsPerMinute * (cronMinute + 1) + d, env))
    /\ UNCHANGED <<pc, upVars, serveVars, raceVars>>

\* A minute boundary passes without a tick of the driver.
CronMiss ==
    /\ cronMinute < MaxMinutes
    /\ cronMinute' = cronMinute + 1
    /\ UNCHANGED <<cronLog, pc, upVars, serveVars, raceVars>>

NextCron == CronTick \/ CronMiss

SpecCron == InitCron /\ [][NextCron]_vars

----------------------------------------------------------------------------
(* Claims about the cron driver *)

\* How many times the callback run rec ran job j of app a.
RunCount(rec, a, j) ==
    Cardinality({ n \in DOMAIN rec.ran : rec.ran[n].app = a /\ rec.ran[n].job = j })

\* The driver could fire job j of app a in the run rec: the apps were
\* listed, the app loaded, the schedule parsed and the command was built.
Fireable(rec, a, j) ==
    /\ rec.env.listOk
    /\ rec.env.loadFail # a
    /\ <<a, j>> \notin rec.env.commandFail
    /\ Parse(Crons[a][j].schedule).ok

\* C13: for every cron entry with schedule s and every minute boundary t at
\* which the driver ticks, the entry's command is run for t if and only if
\* next(s, t - 1s) = t; an entry is run at most once per minute boundary and
\* a minute whose tick did not happen is never made up later.
C13_CronFireExactness ==
    /\ \A i \in DOMAIN cronLog : \A a \in DOMAIN Crons : \A j \in DOMAIN Crons[a] :
        LET rec == cronLog[i]
            t == SecondsPerMinute * rec.tick
            sched == Parse(Crons[a][j].schedule)
        IN  /\ RunCount(rec, a, j) <= 1
            /\ RunCount(rec, a, j) = 1 => sched.ok /\ schedNext(sched, t - 1) = t
            /\ Fireable(rec, a, j) /\ schedNext(sched, t - 1) = t
                    => RunCount(rec, a, j) = 1
            /\ rec.t = t
    /\ \A i, k \in DOMAIN cronLog : i # k => cronLog[i].t # cronLog[k].t
    /\ \A m \in 1 .. cronMinute :
        (\A i \in DOMAIN cronLog : cronLog[i].tick # m)
            => \A i \in DOMAIN cronLog : cronLog[i].t # SecondsPerMinute * m

\* Minute 2 had no tick; the tick of minute 3, read 59 seconds late, ran the
\* every-minute job and the job of minute 3 and not the job of even minutes.
C13_Witness ==
    /\ cronMinute = 3
    /\ Len(cronLog) = 2
    /\ cronLog[1].tick = 1
    /\ cronLog[2].tick = 3
    /\ cronLog[2].t = 180
    /\ RunCount(cronLog[2], "blog", 1) = 1
    /\ RunCount(cronLog[2], "blog", 2) = 0
    /\ RunCount(cronLog[2], "docs", 1) = 1
    /\ RunCount(cronLog[1], "docs", 1) = 0

----------------------------------------------------------------------------
(* Claims about the dispatcher and the middleware, continued *)

Served1 == pc = "done"

\* C14: a request whose host is the configured apex domain is answered 307
\* with Location https://www.<domain><path>?<query>; no app is loaded, no
\* handler or worker is selected or started and no auth middleware runs.
C14_ApexRedirect ==
    Served1 /\ req.host = Domain =>
        /\ resp.status = 307
        /\ resp.by = "dispatcher"
        /\ resp.location.scheme = "https"
        /\ resp.location.host = <<"www">> \o Domain
        /\ resp.location.path = req.path
        /\ resp.location.query =
              [state |-> req.qState, code |-> req.qCode, redirect |-> req.qRedirect]
        /\ resp.appname = << >>
        /\ resp.worker = "none"
        /\ ~resp.wrapped
        /\ resp.challenge = ""
        /\ resp.setSession = NoCookie /\ resp.setOauth = NoOauth
        /\ sessions = pre

\* An apex request for /_auth/logout with a query, a verifying Bearer token
\* and a session cookie, while a session is stored: redirected all the same.
C14_Witness ==
    /\ Served1
    /\ req.host = Domain
    /\ req.path = PathLogout
    /\ req.qRedirect = "/back"
    /\ req.authz.scheme = "Bearer"
    /\ req.cookie = <<1>>
    /\ 1 \in DOMAIN sessions
    /\ resp.status = 307
    /\ resp.location.query.redirect = "/back"

\* The request carries no Basic and no Bearer credentials.
NoCredentials == ~BasicAuthOk(req) /\ ~HasBearer(req)

\* C15: with a non-empty requiredEmail, a request to a private route that
\* carries no Basic or Bearer credentials and no session cookie, and whose
\* path is none of /_auth/login, /_auth/callback, /_auth/logout, is answered
\* 303 with Location /_auth/login?redirect=<request path>; next is not
\* invoked and the session store is unchanged.
C15_LoginRedirect ==
    Wrapped /\ resp.private /\ email # "" /\ NoCredentials
        /\ req.cookie = << >> /\ req.path \notin AuthPaths =>
        /\ resp.status = 303
        /\ resp.location = <<"login", req.path>>
        /\ ~NextInvoked
        /\ resp.setSession = NoCookie
        /\ sessions = pre

\* /_authors on a private app, no cookie, while a session is stored.
C15_Witness ==
    /\ Wrapped /\ resp.private /\ email # ""
    /\ req.authz = NoAuthz
    /\ req.cookie = << >>
    /\ req.path = PathAuthors
    /\ sessions # << >>
    /\ resp.status = 303
    /\ resp.location = <<"login", PathAuthors>>

\* C16: when requiredEmail is empty, every request through the middleware
\* that carries no Basic and no Bearer credentials is answered 401 with a
\* Basic challenge, the /_auth paths and requests with a session cookie
\* included, and no session is ever created, extended or deleted.
C16_NoSessionLoginWithoutEmail ==
    Served1 /\ email = "" =>
        /\ sessions = pre
        /\ resp.setSession = NoCookie /\ resp.setOauth = NoOauth
        /\ Wrapped /\ NoCredentials =>
            /\ resp.status = 401
            /\ resp.challenge = "Basic"
            /\ resp.by = "middleware"

\* A logout request with the cookie of a stored session: 401, session kept.
C16_Witness ==
    /\ Wrapped /\ email = ""
    /\ req.authz = NoAuthz
    /\ req.path = PathLogout
    /\ req.cookie = <<1>>
    /\ 1 \in DOMAIN sessions
    /\ resp.status = 401
    /\ resp.challenge = "Basic"

\* C20: in the sliding-expiry branch (valid session cookie, expiresAt within
\* 7 days of now) the middleware extends the session and returns without
\* invoking next: the client gets an empty response with the default status;
\* the next request with the same cookie, now more than 7 days from expiry,
\* is passed through to next.
C20_ExtensionReturnsWithoutNext ==
    ValidSessionHit =>
        /\ now + SevenDays > Row.expiresAt =>
            /\ ~NextInvoked
            /\ resp.by = "middleware"
            /\ resp.status = 200
            /\ resp.body = "" /\ resp.location = << >>
            /\ resp.setSession = NoCookie
            /\ sessions[req.cookie[1]].expiresAt = now + FourteenDays
            /\ ~(now + SevenDays > sessions[req.cookie[1]].expiresAt)
        /\ ~(now + SevenDays > Row.expiresAt) =>
            /\ NextInvoked
            /\ resp.body = "content"

\* The request after an extension: the session was extended at this very
\* clock reading, after its creation, and this request reaches next.
C20_Witness ==
    /\ ValidSessionHit
    /\ Row.expiresAt = now + FourteenDays
    /\ Row.createdAt < now
    /\ NextInvoked
    /\ resp.status = 200

----------------------------------------------------------------------------
(* Claims about Handler.ServeHTTP, continued *)

\* The evaluator succeeded: exit code 0 and a decodable artifact.
EvaluatorSucceeded(r) ==
    ~r.env.runErr /\ r.env.artifact.present /\ r.env.artifact.decodable

\* C17: access-log writes never fail the request: when the evaluator
\* succeeded the client receives the evaluator's status and body even if
\* the .logs directory is absent; and the .logs directory is created on
\* demand, so that the first request of a fresh rootDir produces a record.
C17_LogNeverFailsDirOnDemand ==
    [][ HandleStep /\ ChildRan' /\ EvaluatorSucceeded(hreq') =>
            LET alias == Head(hreq'.host) IN
            /\ hres'.by = "evaluator"
            /\ hres'.status = hreq'.env.artifact.res.status
            /\ hres'.body = hreq'.env.artifact.res.body
            /\ logsDir'
            /\ Len(LogOf(logs', alias)) = Len(LogOf(logs, alias)) + 1
      ]_vars

\* C19: when the resolved entrypoint is an index.html, ServeHTTP serves
\* static files rooted at the entrypoint's directory and, for that request,
\* loads no env file, creates no temp directory, spawns no child and appends
\* no access-log record; loadEnv returns the empty mapping for such an
\* entrypoint whatever .env files exist.
C19_StaticIndexHtml ==
    [][ HandleStep /\ hres'.entrypoint.stem = "index"
                   /\ hres'.entrypoint.ext = ".html" =>
            /\ hres'.by = "static"
            /\ hres'.fileRoot = hres'.entrypoint.dir
            /\ hres'.events = <<"fileserver">>
            /\ hres'.childEnv = << >>
            /\ hres'.tempdir = "none"
            /\ logs' = logs
            /\ loadEnv(hreq'.fs, rootDir, hres'.entrypoint) = EnvOk(EmptyMap)
      ]_vars

\* An index.html served although rootDir/.env defines keys and the app's
\* own .env does not parse.
C19_Witness ==
    /\ Handled
    /\ hres.by = "static"
    /\ hres.fileRoot = <<"www", "blog">>
    /\ EnvOf(hreq.fs, rootDir) = [k \in {"A", "B"} |-> "1"]
    /\ EnvPath(<<"www", "blog">>) \in hreq.fs.files
    /\ ~hreq.fs.env[EnvPath(<<"www", "blog">>)].valid

----------------------------------------------------------------------------
(* Claims about the dispatcher and the middleware, continued *)

\* C18: the app name derived from the request host is always the leftmost
\* host label, and the whole host when it has no dot, in the dispatcher of
\* NewCmdUp as in Handler.ServeHTTP, also for hosts with more than one label
\* in front of the configured domain and for hosts outside the domain.
C18_AliasIsLeftmostLabel ==
    Served1 /\ req.host # Domain => resp.appname = << Head(req.host) >>

----------------------------------------------------------------------------
(* Claims about the session branch, the callback and the logout *)

\* The session cookie is present and not valid: its id is unknown, or its
\* session belongs to another host, has expired, or is of another account.
InvalidCookie ==
    /\ req.cookie # << >>
    /\ \/ ~CookieNamesRow
       \/ Row.domain # req.host
       \/ now > Row.expiresAt
       \/ Row.email # email

\* C21: a request (requiredEmail non-empty, no token credentials, path none
\* of the three /_auth endpoints) whose session cookie is present but not
\* valid -- unknown id, other domain, expired, or other email -- is answered
\* by expiring the session cookie and a 303 to /_auth/login?redirect=<path>,
\* and next is not invoked.
C21_InvalidCookieRedirects ==
    SessionBranch /\ InvalidCookie /\ req.env.storeFail = "none" =>
        /\ resp.status = 303
        /\ resp.location = <<"login", req.path>>
        /\ resp.setSession = ExpireCookie
        /\ ~NextInvoked

\* The request is one the /_auth/logout branch decides.
LogoutBranch ==
    /\ Wrapped
    /\ ~TokenPresent
    /\ email # ""
    /\ req.path = PathLogout

\* C22: a request to /_auth/logout (requiredEmail non-empty, no token
\* credentials) deletes the session row named by the session cookie, expires
\* the cookie and answers 303 to the redirect query value or, when that is
\* empty, to https://<host>/; after it the row never comes back, and a
\* request presenting the same cookie is redirected to login.
C22_Logout ==
    /\ LogoutBranch /\ req.cookie # << >> /\ req.env.storeFail = "none" =>
        /\ resp.status = 303
        /\ resp.location = IF req.qRedirect = "" THEN <<"root", req.host>>
                           ELSE <<"to", req.qRedirect>>
        /\ resp.setSession = ExpireCookie
        /\ req.cookie[1] \notin DOMAIN sessions
        /\ OthersUntouched
    /\ pc = "done" =>
        \A i \in DOMAIN sessions \ DOMAIN pre :
            /\ resp.setSession.kind = "set"
            /\ i = nextId - 1
            /\ \A j \in DOMAIN pre : j < i
    /\ SessionBranch /\ req.cookie # << >> /\ ~CookieNamesRow
            /\ req.env.storeFail = "none" =>
        /\ resp.status = 303
        /\ resp.location = <<"login", req.path>>
        /\ ~NextInvoked

\* The request after a logout: session 1 was created and cannot have
\* expired yet, its row is gone, and its cookie is sent to login.
C22_Witness ==
    /\ SessionBranch
    /\ now = 0
    /\ nextId = 2
    /\ req.cookie = <<1>>
    /\ pre = << >>
    /\ resp.status = 303
    /\ resp.location = <<"login", req.path>>

\* The request is one the /_auth/callback branch decides.
CallbackBranch ==
    /\ Wrapped
    /\ ~TokenPresent
    /\ email # ""
    /\ req.path = PathCallback

\* Something the callback needs is missing or fails.
CallbackFails ==
    \/ req.oauth = << >>
    \/ ~req.oauth[1].decodable
    \/ req.qState # req.oauth[1].state
    \/ req.qCode = ""
    \/ ~req.env.exchangeOk
    \/ req.env.userinfo \in {"neterr", "non200", "undecodable"}
    \/ req.env.storeFail = "insert"

\* C24: every failing outcome of the /_auth/callback branch (oauth cookie
\* missing or undecodable, state mismatch, missing code, exchange failure,
\* userinfo request failure, userinfo non-200 or undecodable, session
\* creation failure) answers a generic 401 and creates no session.
C24_CallbackFailuresAre401 ==
    CallbackBranch /\ CallbackFails =>
        /\ resp.status = 401
        /\ resp.body = "Unauthorized"
        /\ resp.setSession = NoCookie
        /\ sessions = pre

\* The position of a step among the steps ServeHTTP took, 0 when it did
\* not take it.
EventIndex(ev) ==
    IF \E i \in DOMAIN hres.events : hres.events[i] = ev
    THEN CHOOSE i \in DOMAIN hres.events : hres.events[i] = ev
    ELSE 0

\* C25: for a single request handled by Handler.ServeHTTP the events form
\* the total order request serialized, evaluator child run to completion,
\* response emitted, access-log record appended: the record is never
\* appended before the child has exited nor before the response is written.
C25_LogAfterResponse ==
    Handled /\ EventIndex("log") # 0 =>
        /\ 0 < EventIndex("serialize")
        /\ EventIndex("serialize") < EventIndex("run")
        /\ EventIndex("run") < EventIndex("respond")
        /\ EventIndex("respond") < EventIndex("log")

\* The path lies under the directory /_auth/: the text after the "/_auth"
\* chunk begins with a slash.
UnderAuthDir(path) ==
    /\ Len(path) >= 2
    /\ path[1] = "/_auth"
    /\ path[2] \in {"/login", "/callback", "/logout"}

\* C26: the dispatcher passes a request through the authentication
\* middleware exactly when the privacy flag of the app and path is true or
\* the path lies under /_auth/; a path such as /_authors with the flag
\* false is served directly.
C26_WrapIffPrivateOrAuthDir ==
    ReachedApp => (resp.wrapped <=> (resp.private \/ UnderAuthDir(req.path)))

\* How many times the run rec printed a failure of step did on job j of
\* app a (job 0: the app itself).
PrintCount(rec, a, j, did) ==
    Cardinality({ n \in DOMAIN rec.printed :
        /\ rec.printed[n].app = a
        /\ rec.printed[n].job = j
        /\ rec.printed[n].did = did })

\* Job j of app a is due at the minute of the run rec.
Due(rec, a, j) ==
    LET sched == Parse(Crons[a][j].schedule)
    IN  sched.ok /\ schedNext(sched, rec.t - 1) = rec.t

\* C27: a failure in one cron entry (the app fails to load, the schedule
\* fails to parse, the command cannot be built, the run fails) is confined
\* to that entry: it is printed once and not retried, and every other entry
\* and app is still evaluated in the same tick against the same truncated
\* minute.
C27_CronFailureConfined ==
    \A i \in DOMAIN cronLog : \A a \in DOMAIN Crons : \A j \in DOMAIN Crons[a] :
        LET rec == cronLog[i]
            loaded == rec.env.listOk /\ rec.env.loadFail # a
            built == <<a, j>> \notin rec.env.commandFail
        IN  /\ RunCount(rec, a, j) = (IF loaded /\ Due(rec, a, j) /\ built THEN 1 ELSE 0)
            /\ PrintCount(rec, a, 0, "load")
                    = (IF rec.env.listOk /\ rec.env.loadFail = a THEN 1 ELSE 0)
            /\ PrintCount(rec, a, j, "parse")
                    = (IF loaded /\ ~Parse(Crons[a][j].schedule).ok THEN 1 ELSE 0)
            /\ PrintCount(rec, a, j, "command")
                    = (IF loaded /\ Due(rec, a, j) /\ ~built THEN 1 ELSE 0)
            /\ PrintCount(rec, a, j, "run")
                    = (IF loaded /\ Due(rec, a, j) /\ built /\ <<a, j>> \in rec.env.runFail
                       THEN 1 ELSE 0)
            /\ \A n \in DOMAIN rec.ran : rec.ran[n].at = rec.t
            /\ \A n \in DOMAIN rec.printed : rec.printed[n].at = rec.t

\* At minute 2 the command of the first job of blog could not be built: it
\* was printed, and the second job of blog was run in the same tick; at
\* minute 3 blog did not load and the job of docs was run.
C27_Witness ==
    /\ Len(cronLog) = 2
    /\ cronLog[1].tick = 2
    /\ cronLog[1].env.commandFail = {<<"blog", 1>>}
    /\ PrintCount(cronLog[1], "blog", 1, "command") = 1
    /\ RunCount(cronLog[1], "blog", 1) = 0
    /\ RunCount(cronLog[1], "blog", 2) = 1
    /\ PrintCount(cronLog[1], "blog", 3, "parse") = 1
    /\ cronLog[2].tick = 3
    /\ cronLog[2].env.loadFail = "blog"
    /\ PrintCount(cronLog[2], "blog", 0, "load") = 1
    /\ RunCount(cronLog[2], "docs", 1) = 1

\* wk.StartServer succeeded for the request.
WorkerStarted == pc = "done" /\ resp.worker = "stopped"

\* C28: an evaluator worker is started only for a request that is served
\* by it: none is started for a request the middleware rejects or
\* redirects, and every started worker is stopped on every exit path.
C28_WorkerOnlyWhenServed ==
    /\ Served1 => resp.worker \in {"none", "failed", "stopped"}
    /\ WorkerStarted => resp.by = "worker"

\* The session rows stored for another domain than the host of the request
\* are after the request what they were before it.
OtherDomainsUntouched ==
    \A i \in DOMAIN pre :
        pre[i].domain # req.host => i \in DOMAIN sessions /\ sessions[i] = pre[i]

\* C29: a request on host H deletes or extends only sessions whose stored
\* domain is H; a session of another domain is neither deleted nor extended
\* by it.
C29_OnlyOwnDomainSessions ==
    Served1 => OtherDomainsUntouched

\* The request was a valid session hit on a session near its expiration.
ExtensionBranch == ValidSessionHit /\ NearExpiration(now, Row)

\* C30: the session cookie is set only by the successful callback, with a
\* cookie expiry 14 days after the creation of the session; the sliding
\* extension changes only the stored expiresAt and emits no Set-Cookie, so
\* the cookie of the client keeps the expiry it was given at creation.
C30_CookieSetOnlyByCallback ==
    /\ Served1 /\ resp.setSession.kind = "set" =>
        /\ CallbackBranch /\ ~CallbackFails
        /\ resp.status = 303
        /\ resp.setSession.value \in DOMAIN sessions \ DOMAIN pre
        /\ sessions[resp.setSession.value].createdAt = now
        /\ resp.setSession.expires
                = sessions[resp.setSession.value].createdAt + FourteenDays
        /\ \A i \in DOMAIN pre : i \in DOMAIN sessions /\ sessions[i] = pre[i]
    /\ ExtensionBranch =>
        /\ resp.setSession = NoCookie
        /\ sessions = [pre EXCEPT ![req.cookie[1]].expiresAt = now + FourteenDays]

\* A session created earlier is extended: the stored expiresAt is now later
\* than 14 days after the creation and the response carries no cookie.
C30_Witness ==
    /\ ExtensionBranch
    /\ Row.createdAt < now
    /\ sessions[req.cookie[1]].expiresAt > Row.createdAt + FourteenDays
    /\ sessions[req.cookie[1]].createdAt = Row.createdAt
    /\ resp.setSession = NoCookie

----------------------------------------------------------------------------
(* Concurrent requests on one session: the store calls of the session
   branch and of the logout branch, one call per step *)

\* database.UpdateSession: rewrites the row of that id, if there is one.
dbUpdateSession(ss, id, row) ==
    IF id \in DOMAIN ss THEN [ss EXCEPT ![id] = row] ELSE ss

\* The session every request of the race presents, and its host
RaceId == 1
RaceHost == HostBlog

Idle == [pc |-> "idle", kind |-> "none", row |-> NoSession, status |-> 0]

Done(p, status) == [procs EXCEPT ![p].pc = "done", ![p].status = status]

InitRace ==
    /\ pc = "idle"
    /\ now = 8
    /\ email = Owner
    /\ sessions = CreateSession(<< >>, RaceId, Owner, RaceHost, 0)
    /\ nextId = 2
    /\ req = BaseReq
    /\ resp = NoResp
    /\ pre = << >>
    /\ logsDir = TRUE
    /\ logs = << >>
    /\ hreq = << >>
    /\ hres = << >>
    /\ cronMinute = 0
    /\ cronLog = << >>
    /\ procs = [p \in 1..MaxProcs |-> Idle]

raceFrame == <<pc, email, nextId, req, resp, pre, serveVars, cronVars>>

\* A request with the session cookie arrives: for a page, or for logout.
Arrive(p) ==
    /\ procs[p].pc = "idle"
    /\ \E k \in {"hit", "logout"} :
        procs' = [procs EXCEPT ![p].kind = k,
                               ![p].pc = IF k = "hit" THEN "get" ELSE "logout"]
    /\ UNCHANGED <<now, sessions, raceFrame>>

\* me.GetSession(cookie.Value, r.Host)
HitGet(p) ==
    /\ procs[p].pc = "get"
    /\ LET g == GetSession(sessions, RaceId, RaceHost) IN
        procs' = IF g.ok THEN [procs EXCEPT ![p].pc = "check", ![p].row = g.session]
                 ELSE Done(p, 303)
    /\ UNCHANGED <<now, sessions, raceFrame>>

\* The tests on the session that was read: expired, email, near expiry
HitCheck(p) ==
    /\ procs[p].pc = "check"
    /\ procs' =
        IF Expired(now, procs[p].row) THEN [procs EXCEPT ![p].pc = "delete"]
        ELSE IF procs[p].row.email # email THEN Done(p, 401)
        ELSE IF NearExpiration(now, procs[p].row)
            THEN [procs EXCEPT ![p].pc = "extendGet"]
        ELSE Done(p, 200)
    /\ UNCHANGED <<now, sessions, raceFrame>>

\* me.DeleteSession(cookie.Value) of the expired branch
HitDelete(p) ==
    /\ procs[p].pc = "delete"
    /\ sessions' = DeleteSession(sessions, RaceId)
    /\ procs' = Done(p, 303)
    /\ UNCHANGED <<now, raceFrame>>

\* ExtendSession, first half: database.GetSession
ExtendGet(p) ==
    /\ procs[p].pc = "extendGet"
    /\ LET g == dbGetSession(sessions, RaceId) IN
        procs' = IF g.ok
                 THEN [procs EXCEPT ![p].pc = "extendUpdate",
                         ![p].row = [g.session EXCEPT !.expiresAt = now + FourteenDays]]
                 ELSE Done(p, 500)
    /\ UNCHANGED <<now, sessions, raceFrame>>

\* ExtendSession, second half: database.UpdateSession
ExtendUpdate(p) ==
    /\ procs[p].pc = "extendUpdate"
    /\ sessions' = dbUpdateSession(sessions, RaceId, procs[p].row)
    /\ procs' = Done(p, 200)
    /\ UNCHANGED <<now, raceFrame>>

\* me.DeleteSession(cookie.Value) of the logout branch
LogoutDelete(p) ==
    /\ procs[p].pc = "logout"
    /\ sessions' = DeleteSession(sessions, RaceId)
    /\ procs' = Done(p, 303)
    /\ UNCHANGED <<now, raceFrame>>

\* Time passes while the requests are in flight.
RaceAdvance ==
    /\ now < MaxTime
    /\ now' = now + 1
    /\ UNCHANGED <<sessions, procs, raceFrame>>

NextRace ==
    \/ \E p \in 1..MaxProcs :
        \/ Arrive(p) \/ HitGet(p) \/ HitCheck(p) \/ HitDelete(p)
        \/ ExtendGet(p) \/ ExtendUpdate(p) \/ LogoutDelete(p)
    \/ RaceAdvance

SpecRace == InitRace /\ [][NextRace]_vars

\* C23: sliding expiry is atomic with the read: no other request's store
\* operation takes effect between a request's validity read of the session
\* and its expiry update; a session deleted by a completed logout is never
\* present afterwards, and a hit that read a valid session never ends in a
\* 500 because the row vanished.
C23_SlidingExpiryAtomic ==
    /\ \A p \in DOMAIN procs :
        procs[p].kind = "hit" /\ procs[p].row # NoSession => procs[p].status # 500
    /\ \A p \in DOMAIN procs :
        procs[p].kind = "hit" /\ procs[p].pc \in {"check", "extendGet"} =>
            RaceId \in DOMAIN sessions
    /\ (\E p \in DOMAIN procs : procs[p].kind = "logout" /\ procs[p].pc = "done")
            => RaceId \notin DOMAIN sessions

====
